---- MODULE Spec2Model ----
(***************************************************************************)
(* ZKSyncTransaction.serialize_transaction and ZKSyncTransaction.txn_hash  *)
(* of src/src/ape_zksync/transaction.py: the type-0x71 wire encoding of a  *)
(* zkSync transaction and its keccak digest.                               *)
(*                                                                         *)
(* Python values are tagged records, so that None, an int, a bytes value,  *)
(* a hex string (an address), a signature object and a list stay distinct: *)
(* bytes are sequences over 0..255, hex strings sequences over 0..15.      *)
(***************************************************************************)
EXTENDS Integers, Sequences, FiniteSets, TLC

\* ------------------------------------------------------------ Python values

None == [k |-> "none"]
IntVal(n) == [k |-> "int", n |-> n]
BytesVal(b) == [k |-> "bytes", b |-> b]
StrVal(h) == [k |-> "str", h |-> h]
ListVal(xs) == [k |-> "list", xs |-> xs]
Signature(v, r, s) == [k |-> "sig", v |-> v, r |-> r, s |-> s]

\* Python truth value of `val` (the tests `if val`, `if self.signature`, ...):
\* None, 0, b"", "" and [] are false; a signature object is always true.
Truthy(val) ==
  CASE val.k = "none"  -> FALSE
    [] val.k = "int"   -> val.n # 0
    [] val.k = "bytes" -> Len(val.b) > 0
    [] val.k = "str"   -> Len(val.h) > 0
    [] val.k = "list"  -> Len(val.xs) > 0
    [] val.k = "sig"   -> TRUE

\* ------------------------------------------------------------ HexBytes

\* hex(n) decoded as bytes: the big-endian base-256 digits of n >= 0,
\* a single 0x00 byte for n = 0 ("0x0" is padded to "00").
RECURSIVE IntToBytes(_)
IntToBytes(n) ==
  IF n < 256 THEN <<n>> ELSE IntToBytes(n \div 256) \o <<n % 256>>

\* A hex string (its "0x" prefix removed) decoded as bytes; an odd number of
\* digits is padded with a leading zero digit.
HexStrToBytes(h) ==
  LET p == IF Len(h) % 2 = 1 THEN <<0>> \o h ELSE h
  IN  [i \in 1..(Len(p) \div 2) |-> 16 * p[2 * i - 1] + p[2 * i]]

\* HexBytes(val) for the argument types the encoder passes.
HexBytes(val) ==
  CASE val.k = "int"   -> IntToBytes(val.n)
    [] val.k = "bytes" -> val.b
    [] val.k = "str"   -> HexStrToBytes(val.h)

\* bytes.lstrip(b"\x00")
RECURSIVE lstrip(_)
lstrip(b) ==
  IF Len(b) > 0 /\ b[1] = 0 THEN lstrip(Tail(b)) ELSE b

\* to_bytes with the lstrip left out.
to_bytes_no_strip(val) ==
  IF Truthy(val) THEN HexBytes(val) ELSE <<>>

\* The closure `to_bytes` of serialize_transaction.
to_bytes(val) ==
  IF Truthy(val) THEN lstrip(HexBytes(val)) ELSE <<>>

\* ------------------------------------------------------------ rlp.encode

RECURSIVE Concat(_)
Concat(ss) ==
  IF Len(ss) = 0 THEN <<>> ELSE Head(ss) \o Concat(Tail(ss))

\* The RLP length prefix of a payload of `len` bytes (offset 0x80 for a
\* string, 0xc0 for a list): one byte up to 55, else 0xb7/0xf7 plus the
\* length of the length, then the length big-endian.
length_prefix(len, offset) ==
  IF len < 56
    THEN <<offset + len>>
    ELSE LET bl == IntToBytes(len) IN <<offset + 55 + Len(bl)>> \o bl

RECURSIVE rlp_encode(_)
rlp_encode(item) ==
  IF item.k = "bytes"
    THEN IF Len(item.b) = 1 /\ item.b[1] < 128
           THEN item.b
           ELSE length_prefix(Len(item.b), 128) \o item.b
    ELSE LET payload ==
               Concat([i \in 1..Len(item.xs) |-> rlp_encode(item.xs[i])])
         IN  length_prefix(Len(payload), 192) \o payload

\* keccak is kept symbolic: the digest of b is the term keccak(b), equal
\* for equal inputs and distinct for distinct ones (an ideal hash).
keccak(b) == [k |-> "keccak256", of |-> b]

\* ------------------------------------------------------------ the encoder

LEGACY == 0
ZKSYNC == 113

\* What a call returns or raises.
Return(x) == [k |-> "return", val |-> x]
Raise(e) == [k |-> "raise", err |-> e]

\* The guard testing the ECDSA signature alone.
is_signed_ecdsa_only(self) ==
  Truthy(self.signature)

\* `self.signature or self.aa_signature`
is_signed(self) ==
  Truthy(self.signature) \/ Truthy(self.aa_signature)

\* data = [nonce, max_priority_fee, max_fee, gas_limit, receiver, value, data]
base_fields(self) ==
  << BytesVal(to_bytes(self.nonce)),
     BytesVal(to_bytes(self.max_priority_fee)),
     BytesVal(to_bytes(self.max_fee)),
     BytesVal(to_bytes(self.gas_limit)),
     BytesVal(to_bytes(self.receiver)),
     BytesVal(to_bytes(self.value)),
     BytesVal(to_bytes(self.data)) >>

\* The signature block with v written as it is, not rebased.
signature_block_no_rebase(self) ==
  IF Truthy(self.signature)
    THEN << BytesVal(to_bytes(IntVal(self.signature.v))),
            BytesVal(to_bytes(BytesVal(self.signature.r))),
            BytesVal(to_bytes(BytesVal(self.signature.s))) >>
    ELSE << BytesVal(to_bytes(self.chain_id)), BytesVal(<<>>), BytesVal(<<>>) >>

\* The v, r, s slots: the ECDSA signature with v rebased, or chain_id and
\* two empty placeholders.
signature_block(self) ==
  IF Truthy(self.signature)
    THEN << BytesVal(to_bytes(IntVal(self.signature.v - 27))),
            BytesVal(to_bytes(BytesVal(self.signature.r))),
            BytesVal(to_bytes(BytesVal(self.signature.s))) >>
    ELSE << BytesVal(to_bytes(self.chain_id)), BytesVal(<<>>), BytesVal(<<>>) >>

\* The factory dependencies written last to first.
factory_deps_list_reversed(self) ==
  IF Truthy(self.factory_deps)
    THEN LET n == Len(self.factory_deps.xs)
         IN  ListVal([i \in 1..n |-> BytesVal(to_bytes(self.factory_deps.xs[n + 1 - i]))])
    ELSE ListVal(<<>>)

\* [to_bytes(v) for v in self.factory_deps] if self.factory_deps else []
factory_deps_list(self) ==
  IF Truthy(self.factory_deps)
    THEN ListVal([i \in 1..Len(self.factory_deps.xs) |->
                    BytesVal(to_bytes(self.factory_deps.xs[i]))])
    ELSE ListVal(<<>>)

\* The tail with sender and chain_id in each other's place.
tail_fields_swapped(self) ==
  << BytesVal(to_bytes(self.sender)),
     BytesVal(to_bytes(self.chain_id)),
     BytesVal(to_bytes(self.gas_per_pubdata_byte_limit)),
     IF Truthy(self.factory_deps)
       THEN ListVal([i \in 1..Len(self.factory_deps.xs) |->
                       BytesVal(to_bytes(self.factory_deps.xs[i]))])
       ELSE ListVal(<<>>),
     BytesVal(to_bytes(self.aa_signature)) >>

\* data += [chain_id, sender, gas_per_pubdata_byte_limit, factory_deps, aa_signature]
tail_fields(self) ==
  << BytesVal(to_bytes(self.chain_id)),
     BytesVal(to_bytes(self.sender)),
     BytesVal(to_bytes(self.gas_per_pubdata_byte_limit)),
     factory_deps_list(self),
     BytesVal(to_bytes(self.aa_signature)) >>

\* The pair appended as soon as either of its two fields is set.
paymaster_pair_either(self) ==
  IF Truthy(self.paymaster) \/ Truthy(self.paymaster_input)
    THEN << BytesVal(to_bytes(self.paymaster)),
            BytesVal(to_bytes(self.paymaster_input)) >>
    ELSE <<>>

\* The pair written as one nested list element, empty without a paymaster.
paymaster_pair_nested(self) ==
  IF Truthy(self.paymaster)
    THEN << ListVal(<< BytesVal(to_bytes(self.paymaster)),
                       BytesVal(to_bytes(self.paymaster_input)) >>) >>
    ELSE << ListVal(<<>>) >>

\* data += [paymaster, paymaster_input] if self.paymaster, else nothing.
paymaster_pair(self) ==
  IF Truthy(self.paymaster)
    THEN << BytesVal(to_bytes(self.paymaster)),
            BytesVal(to_bytes(self.paymaster_input)) >>
    ELSE <<>>

\* The list `data` that serialize_transaction encodes.
data_list(self) ==
  base_fields(self) \o signature_block(self) \o tail_fields(self) \o paymaster_pair(self)

\* serialize_transaction with the type byte left out.
serialize_untyped(self) ==
  IF ~(Truthy(self.signature) \/ Truthy(self.aa_signature))
    THEN Raise("SignatureError")
    ELSE Return(rlp_encode(ListVal(
           base_fields(self) \o signature_block(self)
             \o tail_fields(self) \o paymaster_pair(self))))

\* The outcome of serialize_transaction on `self`.
serialize(self) ==
  IF ~is_signed(self)
    THEN Raise("SignatureError")
    ELSE Return(HexBytes(IntVal(self.type)) \o rlp_encode(ListVal(data_list(self))))

\* txn_hash over the RLP part alone, the type byte skipped.
hash_without_type(self) ==
  LET ser == serialize(self)
  IN  IF ser.k = "raise" THEN ser ELSE Return(keccak(Tail(ser.val)))

\* The outcome of the property txn_hash on `self`.
hash(self) ==
  LET ser == serialize(self)
  IN  IF ser.k = "raise" THEN ser ELSE Return(keccak(ser.val))

\* ------------------------------------------------------------ inputs

MaxNonce == 2
MaxDeps == 2
MaxChanged == 2

\* Addresses are 40-digit hex strings (AddressType), hashes and signature
\* components 32-byte values.
AddrA == [i \in 1..40 |-> (i * 3) % 16]
AddrB == [i \in 1..40 |-> IF i <= 2 THEN 0 ELSE (i * 5) % 16]
AddrP == [i \in 1..40 |-> IF i <= 3 THEN 0 ELSE (i * 7) % 16]
ZeroAddr == [i \in 1..40 |-> 0]
SigR == [i \in 1..32 |-> IF i = 1 THEN 0 ELSE (i * 17) % 256]
SigS == [i \in 1..32 |-> (i * 19 + 128) % 256]
AASig == <<0, 171, 205>>

\* The n-th bytecode hash; every second one starts with zero bytes.
DepHash(n) ==
  BytesVal([i \in 1..32 |-> IF i <= 2 THEN (IF i = 1 THEN n % 2 ELSE 0)
                            ELSE (i * 11 + n) % 256])

\* The values each field takes.
Domain ==
  [ nonce            |-> {None} \cup {IntVal(n) : n \in 0..MaxNonce},
    max_priority_fee |-> {None, IntVal(1000000000)},
    max_fee          |-> {None, IntVal(2000000000)},
    gas_limit        |-> {None, IntVal(100000)},
    receiver         |-> {None, StrVal(AddrA), StrVal(AddrB)},
    value            |-> {IntVal(0), IntVal(128), IntVal(256)},
    data             |-> {BytesVal(<<>>), BytesVal(<<0>>), BytesVal(<<7>>),
                          BytesVal(<<0, 7>>), BytesVal(<<169, 5, 0>>)},
    chain_id         |-> {IntVal(0), IntVal(270)},
    sender           |-> {None, StrVal(AddrA), StrVal(AddrB)},
    gas_per_pubdata_byte_limit |-> {IntVal(160000), IntVal(800)},
    factory_deps     |-> {None} \cup
                         {ListVal([i \in 1..n |-> DepHash(i)]) : n \in 0..MaxDeps},
    paymaster        |-> {None, StrVal(AddrP), StrVal(ZeroAddr)},
    paymaster_input  |-> {None, BytesVal(<<>>), BytesVal(<<0, 9>>)} ]

\* ECDSA signatures carry v = 27 or 28 (v - 27 is then 0 or 1; HexBytes
\* rejects a negative integer). An account-abstraction signature is an
\* opaque byte string, possibly empty.
Signatures == {Signature(v, SigR, SigS) : v \in {27, 28}}
AASignatures == {BytesVal(<<>>), BytesVal(AASig)}

\* A transaction constructed, unsigned, with every fee field populated.
Populated ==
  [ nonce |-> IntVal(1), max_priority_fee |-> IntVal(1000000000),
    max_fee |-> IntVal(2000000000), gas_limit |-> IntVal(100000),
    receiver |-> StrVal(AddrA), value |-> IntVal(0), data |-> BytesVal(<<>>),
    signature |-> None, aa_signature |-> None, chain_id |-> IntVal(270),
    sender |-> StrVal(AddrA), gas_per_pubdata_byte_limit |-> IntVal(160000),
    factory_deps |-> None, paymaster |-> None, paymaster_input |-> None,
    type |-> ZKSYNC ]

\* The transactions that give one field of t another value of its domain.
Variants(t) ==
  {[t EXCEPT ![f] = v] : <<f, v>> \in
      UNION {{<<g, w>> : w \in Domain[g]} : g \in DOMAIN Domain}}

RECURSIVE Within(_)
Within(n) ==
  IF n = 0 THEN {Populated} ELSE UNION {Variants(t) : t \in Within(n - 1)}

\* ------------------------------------------------------------ the program

NoCall == [k |-> "nocall"]

VARIABLES txn, res

vars == <<txn, res>>

\* Construction never fails; the transaction starts out unsigned. txn is the
\* one transaction value, res[c] what caller c holds of its last call on it.
Init ==
  /\ txn \in Within(MaxChanged)
  /\ res = [c \in {1} |-> NoCall]

\* Two callers share a transaction.
InitShared ==
  /\ txn \in Variants(Populated)
  /\ res = [c \in {1, 2} |-> NoCall]

\* No caller holds a result of the transaction as it stands.
Unobserved == \A c \in DOMAIN res : res[c] = NoCall

\* The signing collaborator attaches the ECDSA signature.
sign(sig) ==
  /\ Unobserved
  /\ txn' = [txn EXCEPT !.signature = sig]
  /\ UNCHANGED res

\* The account-abstraction signature is attached.
set_aa_signature(b) ==
  /\ Unobserved
  /\ txn' = [txn EXCEPT !.aa_signature = b]
  /\ UNCHANGED res

\* serialize_transaction accumulating into self.data instead of a local list.
serialize_transaction_mutating(c) ==
  /\ res' = [res EXCEPT ![c] = [op |-> "serialize_transaction", out |-> serialize(txn)]]
  /\ txn' = [txn EXCEPT !.data = BytesVal(txn.data.b \o <<1>>)]

\* Caller c calls self.serialize_transaction().
serialize_transaction(c) ==
  /\ res' = [res EXCEPT ![c] = [op |-> "serialize_transaction", out |-> serialize(txn)]]
  /\ UNCHANGED txn

\* Caller c reads self.txn_hash.
txn_hash(c) ==
  /\ res' = [res EXCEPT ![c] = [op |-> "txn_hash", out |-> hash(txn)]]
  /\ UNCHANGED txn

\* Caller c lets go of the result it holds.
drop(c) ==
  /\ res[c] # NoCall
  /\ res' = [res EXCEPT ![c] = NoCall]
  /\ UNCHANGED txn

Next ==
  \/ \E sig \in Signatures : sign(sig)
  \/ \E b \in AASignatures : set_aa_signature(b)
  \/ \E c \in DOMAIN res : serialize_transaction(c)
  \/ \E c \in DOMAIN res : txn_hash(c)
  \/ \E c \in DOMAIN res : drop(c)

Spec == Init /\ [][Next]_vars

SpecShared == InitShared /\ [][Next]_vars

\* ------------------------------------------------------------ reference definitions

\* The value of a big-endian byte string.
RECURSIVE BigEndianValue(_)
BigEndianValue(b) ==
  IF Len(b) = 0 THEN 0
  ELSE 256 * BigEndianValue(SubSeq(b, 1, Len(b) - 1)) + b[Len(b)]

\* An RLP decoder: the item that starts at bs[i] and the index after it,
\* and the items that fill bs[from..to].
RECURSIVE DecodeAt(_, _), DecodeItems(_, _, _)
DecodeAt(bs, i) ==
  LET b0 == bs[i]
  IN  CASE b0 < 128 ->
             [item |-> BytesVal(<<b0>>), next |-> i + 1]
        [] b0 >= 128 /\ b0 < 184 ->
             [item |-> BytesVal(SubSeq(bs, i + 1, i + b0 - 128)),
              next |-> i + 1 + b0 - 128]
        [] b0 >= 184 /\ b0 < 192 ->
             LET ll == b0 - 183
                 len == BigEndianValue(SubSeq(bs, i + 1, i + ll))
             IN  [item |-> BytesVal(SubSeq(bs, i + ll + 1, i + ll + len)),
                  next |-> i + ll + len + 1]
        [] b0 >= 192 /\ b0 < 248 ->
             [item |-> ListVal(DecodeItems(bs, i + 1, i + b0 - 192)),
              next |-> i + 1 + b0 - 192]
        [] OTHER ->
             LET ll == b0 - 247
                 len == BigEndianValue(SubSeq(bs, i + 1, i + ll))
             IN  [item |-> ListVal(DecodeItems(bs, i + ll + 1, i + ll + len)),
                  next |-> i + ll + len + 1]
DecodeItems(bs, from, to) ==
  IF from > to THEN <<>>
  ELSE LET d == DecodeAt(bs, from)
       IN  <<d.item>> \o DecodeItems(bs, d.next, to)

\* The top-level sequence an encoded payload carries after its type byte:
\* the decoded list's elements, or <<>> when the rest is not one whole list.
Elements(payload) ==
  LET body == Tail(payload)
      d == DecodeAt(body, 1)
  IN  IF Len(body) > 0 /\ body[1] >= 192 /\ d.next = Len(body) + 1
        THEN d.item.xs ELSE <<>>

\* The bytes a value stands for before normalization: an integer in four
\* big-endian bytes, a hex string decoded, bytes as they are, None as none.
Raw(val) ==
  CASE val.k = "none"  -> <<>>
    [] val.k = "int"   -> [i \in 1..4 |-> (val.n \div (256 ^ (4 - i))) % 256]
    [] val.k = "bytes" -> val.b
    [] val.k = "str"   -> [i \in 1..(Len(val.h) \div 2) |->
                             val.h[2 * i - 1] * 16 + val.h[2 * i]]

\* norm of the specification: the bytes that follow the leading zero bytes.
Norm(val) ==
  LET raw == Raw(val)
      zeros == Cardinality({i \in 1..Len(raw) : \A j \in 1..i : raw[j] = 0})
  IN  SubSeq(raw, zeros + 1, Len(raw))

NormElement(val) == BytesVal(Norm(val))

\* The sequence the specification lays out for a transaction.
SignatureBlockElements(t) ==
  IF t.signature # None
    THEN << NormElement(IntVal(t.signature.v - 27)),
            NormElement(BytesVal(t.signature.r)),
            NormElement(BytesVal(t.signature.s)) >>
    ELSE << NormElement(t.chain_id), BytesVal(<<>>), BytesVal(<<>>) >>

FactoryDepsElement(t) ==
  IF t.factory_deps = None THEN ListVal(<<>>)
  ELSE ListVal([i \in 1..Len(t.factory_deps.xs) |-> NormElement(t.factory_deps.xs[i])])

PaymasterElements(t) ==
  IF t.paymaster = None THEN <<>>
  ELSE << NormElement(t.paymaster), NormElement(t.paymaster_input) >>

ExpectedElements(t) ==
  << NormElement(t.nonce), NormElement(t.max_priority_fee), NormElement(t.max_fee),
     NormElement(t.gas_limit), NormElement(t.receiver), NormElement(t.value),
     NormElement(t.data) >>
  \o SignatureBlockElements(t)
  \o << NormElement(t.chain_id), NormElement(t.sender),
        NormElement(t.gas_per_pubdata_byte_limit), FactoryDepsElement(t),
        NormElement(t.aa_signature) >>
  \o PaymasterElements(t)

\* Caller c holds the outcome of a call of op / a value it returned.
Holds(c, op) == res[c] # NoCall /\ res[c].op = op
Returned(c, op) == Holds(c, op) /\ res[c].out.k = "return"
Encoded(c) == Returned(c, "serialize_transaction")

NoLeadingZero(b) == Len(b) = 0 \/ b[1] # 0

\* ------------------------------------------------------------ C1

C2_FieldOrder ==
  \A c \in DOMAIN res : Encoded(c) =>
    /\ res[c].out.val[1] = 113
    /\ Elements(res[c].out.val) = ExpectedElements(txn)
    /\ Len(Elements(res[c].out.val)) > 0

C2_Witness ==
  /\ Encoded(1)
  /\ txn.signature # None
  /\ txn.aa_signature = BytesVal(AASig)
  /\ txn.paymaster = StrVal(AddrP)
  /\ txn.factory_deps # None /\ Len(txn.factory_deps.xs) = 2

\* ------------------------------------------------------------ C3

\* C3: elements 8 to 10 are norm(v - 27), norm(r), norm(s) when the ECDSA
\* signature is present (empty for v = 27, the byte 0x01 for v = 28), and
\* norm(chain_id), empty, empty when it is absent.
C3_SignatureBlock ==
  \A c \in DOMAIN res : Encoded(c) =>
    LET e == Elements(res[c].out.val)
    IN  IF txn.signature # None
          THEN /\ e[8] = NormElement(IntVal(txn.signature.v - 27))
               /\ e[9] = NormElement(BytesVal(txn.signature.r))
               /\ e[10] = NormElement(BytesVal(txn.signature.s))
               /\ txn.signature.v = 27 => e[8].b = <<>>
               /\ txn.signature.v = 28 => e[8].b = <<1>>
          ELSE /\ e[8] = NormElement(txn.chain_id)
               /\ e[9] = BytesVal(<<>>)
               /\ e[10] = BytesVal(<<>>)

C3_Witness ==
  /\ Encoded(1)
  /\ txn.signature # None /\ txn.signature.v = 28
  /\ Elements(res[1].out.val)[8] = BytesVal(<<1>>)

\* ------------------------------------------------------------ C4

\* The field each byte-string position of the sequence is taken from.
PlainFieldAt ==
  [ i \in {1, 2, 3, 4, 5, 6, 7, 11, 12, 13, 15, 16, 17} |->
      CASE i = 1 -> "nonce" [] i = 2 -> "max_priority_fee" [] i = 3 -> "max_fee"
        [] i = 4 -> "gas_limit" [] i = 5 -> "receiver" [] i = 6 -> "value"
        [] i = 7 -> "data" [] i = 11 -> "chain_id" [] i = 12 -> "sender"
        [] i = 13 -> "gas_per_pubdata_byte_limit" [] i = 15 -> "aa_signature"
        [] i = 16 -> "paymaster" [] i = 17 -> "paymaster_input" ]

\* None, the integer 0, and a byte or hex string that is empty or all zero.
ZeroLike(val) ==
  CASE val.k = "none"  -> TRUE
    [] val.k = "int"   -> val.n = 0
    [] val.k = "bytes" -> \A i \in 1..Len(val.b) : val.b[i] = 0
    [] val.k = "str"   -> \A i \in 1..Len(val.h) : val.h[i] = 0

\* C4: every byte-string element of the encoded sequence, those of the
\* factory-dependencies list included, is the field's big-endian bytes with
\* the leading zero bytes stripped: none starts with a zero byte, and a zero
\* integer, an absent value and an empty or all-zero byte string give the
\* zero-length string, for integers, addresses, call data and hashes alike.
C4_Normalization ==
  \A c \in DOMAIN res : Encoded(c) =>
    LET e == Elements(res[c].out.val)
    IN  /\ \A i \in DOMAIN e :
             IF e[i].k = "bytes" THEN NoLeadingZero(e[i].b)
             ELSE \A j \in DOMAIN e[i].xs :
                    e[i].xs[j].k = "bytes" /\ NoLeadingZero(e[i].xs[j].b)
        /\ \A i \in DOMAIN e \cap DOMAIN PlainFieldAt :
             /\ e[i].b = Norm(txn[PlainFieldAt[i]])
             /\ ZeroLike(txn[PlainFieldAt[i]]) => e[i].b = <<>>
        /\ \A j \in DOMAIN e[14].xs :
             /\ e[14].xs[j].b = Norm(txn.factory_deps.xs[j])
             /\ ZeroLike(txn.factory_deps.xs[j]) => e[14].xs[j].b = <<>>

C4_Witness ==
  /\ Encoded(1)
  /\ txn.data = BytesVal(<<0, 7>>)
  /\ txn.nonce = IntVal(0)
  /\ Elements(res[1].out.val)[7] = BytesVal(<<7>>)
  /\ Elements(res[1].out.val)[1] = BytesVal(<<>>)

\* ------------------------------------------------------------ C5

\* C5: giving a transaction a paymaster appends exactly norm(paymaster),
\* norm(paymaster_input) to the sequence and leaves every earlier element as
\* it is; without a paymaster nothing is appended, whatever paymaster_input.
C5_PaymasterPair ==
  \A c \in DOMAIN res : Encoded(c) =>
    LET e == Elements(res[c].out.val)
    IN  IF txn.paymaster = None
          THEN /\ \A q \in Domain.paymaster_input :
                    serialize([txn EXCEPT !.paymaster_input = q]) = res[c].out
               /\ \A p \in Domain.paymaster \ {None} :
                    Elements(serialize([txn EXCEPT !.paymaster = p]).val)
                      = e \o << NormElement(p), NormElement(txn.paymaster_input) >>
          ELSE Elements(serialize([txn EXCEPT !.paymaster = None]).val)
                 \o << NormElement(txn.paymaster), NormElement(txn.paymaster_input) >>
               = e

C5_Witness ==
  /\ Encoded(1)
  /\ txn.paymaster = None
  /\ txn.paymaster_input = BytesVal(<<0, 9>>)

\* ------------------------------------------------------------ C6

\* C6 as stated: 14 top-level elements without a paymaster, 16 with one.
C6_AsStated ==
  \A c \in DOMAIN res : Encoded(c) =>
    Len(Elements(res[c].out.val)) = IF txn.paymaster = None THEN 14 ELSE 16

\* C6, amended: the top-level sequence of a successful encoding has exactly
\* 15 elements when paymaster is absent and exactly 17 when it is present,
\* on either signature path.
C6_ElementCount ==
  \A c \in DOMAIN res : Encoded(c) =>
    Len(Elements(res[c].out.val)) = IF txn.paymaster = None THEN 15 ELSE 17

C6_Witness ==
  /\ Encoded(1)
  /\ txn.paymaster # None
  /\ txn.signature = None
  /\ Len(Elements(res[1].out.val)) = 17

\* ------------------------------------------------------------ C7

\* C7: element 14 is always a list; factory_deps = None and factory_deps = []
\* give identical output, with that list empty; a non-empty factory_deps
\* gives a list of the same length whose i-th element is norm of the i-th
\* hash.
C7_FactoryDeps ==
  \A c \in DOMAIN res : Encoded(c) =>
    LET e == Elements(res[c].out.val)
    IN  /\ e[14].k = "list"
        /\ serialize([txn EXCEPT !.factory_deps = None])
             = serialize([txn EXCEPT !.factory_deps = ListVal(<<>>)])
        /\ txn.factory_deps \in {None, ListVal(<<>>)} => e[14] = ListVal(<<>>)
        /\ txn.factory_deps \notin {None, ListVal(<<>>)} =>
             /\ Len(e[14].xs) = Len(txn.factory_deps.xs)
             /\ \A i \in DOMAIN e[14].xs :
                  e[14].xs[i] = NormElement(txn.factory_deps.xs[i])

C7_Witness ==
  /\ Encoded(1)
  /\ txn.factory_deps # None /\ Len(txn.factory_deps.xs) = 2
  /\ Len(Elements(res[1].out.val)[14].xs) = 2

\* ------------------------------------------------------------ C8

\* C8: a call of serialize_transaction or txn_hash changes no field of the
\* transaction; a repeated call by the same caller returns what the call
\* before it returned; two callers of the same operation on the shared
\* transaction hold the same outcome, and a digest one holds is the digest
\* of the bytes the other holds.
C8_Pure ==
  [][ /\ \A c \in DOMAIN res :
           (res'[c] # NoCall /\ res'[c] # res[c]) =>
             /\ txn' = txn
             /\ res[c] # NoCall => res[c].op # res'[c].op
      /\ \A c \in DOMAIN res : \A d \in DOMAIN res :
           (res'[c] # NoCall /\ res'[d] # NoCall) =>
             /\ res'[c].op = res'[d].op => res'[c] = res'[d]
             /\ res'[c].out.k = res'[d].out.k
             /\ ( /\ res'[c].op = "serialize_transaction"
                  /\ res'[d].op = "txn_hash"
                  /\ res'[c].out.k = "return" )
                => res'[d].out.val = keccak(res'[c].out.val)
    ]_vars

C8_Witness ==
  /\ Returned(1, "serialize_transaction")
  /\ Returned(2, "txn_hash")
  /\ res[2].out.val = keccak(res[1].out.val)

\* ------------------------------------------------------------ C9

\* The transactions that differ from t in one field, the two signature
\* fields included.
SingleFieldChanges(t) ==
  (Variants(t)
     \cup {[t EXCEPT !.signature = g] : g \in Signatures \cup {None}}
     \cup {[t EXCEPT !.aa_signature = b] : b \in AASignatures \cup {None}})
  \ {t}

\* C9 as stated: no two valid transactions that differ in exactly one field
\* have the same encoded bytes.
C9_AsStated ==
  \A c \in DOMAIN res : Encoded(c) =>
    \A u \in SingleFieldChanges(txn) :
      serialize(u).k = "return" => serialize(u) # res[c].out

\* C9, amended: the digest is the hash of the whole encode output, type byte
\* included; two valid transactions that differ in one field have the same
\* encoded bytes, and so the same digest, exactly when the change leaves the
\* normalized element sequence as it was; incrementing nonce by 1 always
\* changes both.
C9_Digest ==
  \A c \in DOMAIN res : Returned(c, "txn_hash") =>
    LET digest == res[c].out.val
        expected == ExpectedElements(txn)
    IN  /\ digest = keccak(serialize(txn).val)
        /\ digest.of[1] = 113
        /\ \A u \in SingleFieldChanges(txn) :
             LET h == hash(u)
             IN  h.k = "return" =>
                   (h.val = digest <=> ExpectedElements(u) = expected)
        /\ txn.nonce # None =>
             hash([txn EXCEPT !.nonce = IntVal(txn.nonce.n + 1)]).val # digest

C9_Witness ==
  /\ Returned(1, "txn_hash")
  /\ txn.nonce = IntVal(1)
  /\ txn.data = BytesVal(<<0, 7>>)
  /\ hash([txn EXCEPT !.data = BytesVal(<<7>>)]) = res[1].out
  /\ hash([txn EXCEPT !.nonce = IntVal(2)]) # res[1].out

\* ------------------------------------------------------------ C10

\* The round-trip scenario: ECDSA-signed with v = 27, value 0, empty data, no
\* factory dependencies, no account-abstraction signature, no paymaster, and
\* nonce, fees, gas limit, receiver, chain id and sender all non-zero.
Scenario(t) ==
  /\ t.signature # None /\ t.signature.v = 27
  /\ t.value = IntVal(0)
  /\ t.data = BytesVal(<<>>)
  /\ t.factory_deps = None
  /\ t.aa_signature = None
  /\ t.paymaster = None
  /\ \A f \in {"nonce", "max_priority_fee", "max_fee", "gas_limit",
               "receiver", "chain_id", "sender"} : ~ZeroLike(t[f])

\* C10 as stated: on the scenario the decoded top-level sequence has 12
\* elements.
C10_AsStated ==
  \A c \in DOMAIN res : (Holds(c, "serialize_transaction") /\ Scenario(txn)) =>
    /\ res[c].out.k = "return"
    /\ res[c].out.val[1] = 113
    /\ Len(Elements(res[c].out.val)) = 12
    /\ Elements(res[c].out.val)[6].b = <<>>
    /\ Elements(res[c].out.val)[7].b = <<>>

\* C10, amended: on the scenario encode succeeds, its first byte is 0x71,
\* the decoded top-level sequence has 15 elements, and the value and data
\* elements are zero-length.
C10_Scenario ==
  \A c \in DOMAIN res : (Holds(c, "serialize_transaction") /\ Scenario(txn)) =>
    /\ res[c].out.k = "return"
    /\ res[c].out.val[1] = 113
    /\ Len(Elements(res[c].out.val)) = 15
    /\ Elements(res[c].out.val)[6].b = <<>>
    /\ Elements(res[c].out.val)[7].b = <<>>

C10_Witness ==
  /\ Encoded(1)
  /\ Scenario(txn)
  /\ txn = [Populated EXCEPT !.signature = Signature(27, SigR, SigS)]

====
